---- MODULE Spec2Model ----
(***************************************************************************)
(* Model of the DepMap CRISPR x immune-proxy pipeline:                     *)
(*   gene_analysis.py            - per-cancer correlation loop (Spec)      *)
(*   post_analysis_enrichment.py - enrichment / overlap script (EnrichSpec)*)
(*                                                                         *)
(* Strings are tuples of code points, so that lower(), replace(), the      *)
(* substring test and Python's string ordering are computed, not assumed.  *)
(* Floating point values are exact rationals [nan, num, den] with den > 0; *)
(* NaN compares false with everything, as IEEE-754 does.  P-values and     *)
(* FDR values are carried in units of 1/PScale.                            *)
(***************************************************************************)
EXTENDS Integers, Sequences, FiniteSets, TLC

VARIABLES
    dataset,        \* selector of the three input tables (fixed during a run)
    pc,             \* position of gene_analysis.py
    ci,             \* index into unique_cancers of the current iteration
    common_models,  \* cohort of the current iteration
    gi,             \* position of the gene loop in crispr_sub.index
    results,        \* per-cancer results list
    files,          \* Cancer_Specific_Results: out_file -> table
    saved,          \* the cancers for which results_df.to_csv was called, in order
    summary_rows,   \* the summary collection
    summary_csv,    \* Cancerwise_Summary.csv: <<>> until written, then <<table>>
    epc,            \* position of post_analysis_enrichment.py
    efiles,         \* the result directory the enrichment script reads
    cancer_list,    \* cancers loaded by the enrichment script, in file order
    cancer_top_pos, \* cancer -> genes of the highest Spearman_r
    cancer_top_neg, \* cancer -> genes of the lowest Spearman_r
    ei,             \* index into EItems of the current enrichment item
    queries,        \* gp.profile calls made, in order
    enrich_csv,     \* Enrichment_<label>_<cancer>.csv files written
    elog,           \* "Enrichment failed for ..." lines printed
    overlap_out     \* Jaccard / frequency / overlap outputs: <<>> or <<record>>

vars == <<dataset, pc, ci, common_models, gi, results, files, saved,
          summary_rows, summary_csv, epc, efiles, cancer_list, cancer_top_pos,
          cancer_top_neg, ei, queries, enrich_csv, elog, overlap_out>>

mainVars == <<dataset, pc, ci, common_models, gi, results, files, saved,
              summary_rows, summary_csv>>

enrichVars == <<epc, efiles, cancer_list, cancer_top_pos, cancer_top_neg, ei,
                queries, enrich_csv, elog, overlap_out>>

(***************************************************************************)
(* Bounds of the model and constants of the program                        *)
(***************************************************************************)
\* samples per annotation group in the generated inputs
GroupSize == 27
\* number of gene rows in the generated fitness matrix
NGenes == 4

\* gene_analysis.py:60  if len(common_models) < 25
MinCohort == 25
\* gene_analysis.py:74  if mask.sum() < 5
MinPairs == 5
\* gene_analysis.py:107 head(3)
TopK == 3
\* post_analysis_enrichment.py:25
TOP_N == 100

(***************************************************************************)
(* Numbers                                                                 *)
(***************************************************************************)
NaN == [nan |-> TRUE, num |-> 0, den |-> 1]
Rat(n, d) == [nan |-> FALSE, num |-> n, den |-> d]
IsNaN(a) == a.nan
\* IEEE comparisons: anything compared with NaN is false
Lt(a, b) == ~a.nan /\ ~b.nan /\ a.num * b.den < b.num * a.den
Le(a, b) == ~a.nan /\ ~b.nan /\ a.num * b.den <= b.num * a.den
Eq(a, b) == ~a.nan /\ ~b.nan /\ a.num * b.den = b.num * a.den

Abs(i) == IF i < 0 THEN -i ELSE i

RECURSIVE SumSeq(_)
SumSeq(s) == IF s = <<>> THEN 0 ELSE Head(s) + SumSeq(Tail(s))

RECURSIVE Flatten(_)
Flatten(ss) == IF ss = <<>> THEN <<>> ELSE Head(ss) \o Flatten(Tail(ss))

\* the positions of s, in order, whose element satisfies Test
SelectPos(s, Test(_)) ==
    LET F[i \in 0..Len(s)] ==
            IF i = 0 THEN <<>>
            ELSE IF Test(s[i]) THEN Append(F[i - 1], i) ELSE F[i - 1]
    IN F[Len(s)]

Range(s) == {s[i] : i \in DOMAIN s}

\* the sequence s itself, as an explicit tuple
AsList(s) == s \o <<>>

\* s.head(k)
HeadK(s, k) == SubSeq(s, 1, IF Len(s) < k THEN Len(s) ELSE k)

(***************************************************************************)
(* Strings                                                                 *)
(***************************************************************************)
\* str.lower() on the ASCII range
LowerChar(c) == IF c \in 65..90 THEN c + 32 ELSE c
Lower(s) == [i \in DOMAIN s |-> LowerChar(s[i])]

\* Python's str < str: lexicographic by code point, a proper prefix first
StrLess(a, b) ==
    \E k \in 1..(Len(b)) :
        /\ \A j \in 1..(k - 1) : j <= Len(a) /\ a[j] = b[j]
        /\ \/ k = Len(a) + 1
           \/ k <= Len(a) /\ a[k] < b[k]

\* pat occurs in s at position i
MatchAt(s, pat, i) ==
    /\ i + Len(pat) - 1 <= Len(s)
    /\ \A j \in 1..Len(pat) : s[i + j - 1] = pat[j]

\* Python's "pat in s"
Contains(s, pat) == \E i \in 1..(Len(s) + 1) : MatchAt(s, pat, i)

\* Python's s.replace(pat, rep) for a non-empty pat: leftmost, non-overlapping
RECURSIVE ReplaceFrom(_, _, _, _)
ReplaceFrom(s, pat, rep, i) ==
    IF i > Len(s) THEN <<>>
    ELSE IF MatchAt(s, pat, i)
         THEN rep \o ReplaceFrom(s, pat, rep, i + Len(pat))
         ELSE <<s[i]>> \o ReplaceFrom(s, pat, rep, i + 1)

Replace(s, pat, rep) == ReplaceFrom(s, pat, rep, 1)

\* sorted(S) for a set of strings
RECURSIVE SortedStrings(_)
SortedStrings(S) ==
    IF S = {} THEN <<>>
    ELSE LET m == CHOOSE x \in S : \A y \in S \ {x} : StrLess(x, y)
         IN <<m>> \o SortedStrings(S \ {m})

\* sorted(S) for a set of integers
RECURSIVE SortedInts(_)
SortedInts(S) ==
    IF S = {} THEN <<>>
    ELSE LET m == CHOOSE x \in S : \A y \in S : x <= y
         IN <<m>> \o SortedInts(S \ {m})

(***************************************************************************)
(* The three input tables, generated from the selector `dataset`.          *)
(*   model      : annotation rows (ModelID, OncotreePrimaryDisease)        *)
(*   crispr     : gene x sample fitness matrix (after the orientation fix) *)
(*   omics_expr : sample x gene expression matrix (index deduplicated)     *)
(* There are two annotation groups of GroupSize samples each.  The sample  *)
(* at position 2 of a group has no fitness column, a group g has           *)
(* expression rows for its first n[g]+1 positions, so its cohort has n[g]  *)
(* samples.  <<>> as a disease label stands for a missing value (NaN).     *)
(***************************************************************************)
LabelAB == <<65, 47, 66>>       \* "A/B"
LabelA_B == <<65, 95, 66>>      \* "A_B"
Labelab == <<97, 47, 98>>       \* "a/b"
LabelC == <<67>>                \* "C"
NoLabel == <<>>                 \* NaN

ColB2M == <<66, 50, 77>>                        \* "B2M"
ColTGFB1 == <<84, 71, 70, 66, 49>>              \* "TGFB1"
ColTGFB1I1 == <<84, 71, 70, 66, 49, 73, 49>>    \* "TGFB1I1"
ColACTB == <<65, 67, 84, 66>>                   \* "ACTB"

\* per annotation layout: the label of group 1, of group 2, and the label of
\* the first sample of group 1 (a case variant in layout 3)
Layouts ==
    << [g1 |-> LabelAB, g2 |-> LabelA_B, first |-> LabelAB],
       [g1 |-> LabelC,  g2 |-> LabelAB,  first |-> LabelC],
       [g1 |-> LabelAB, g2 |-> LabelC,   first |-> Labelab],
       [g1 |-> LabelAB, g2 |-> NoLabel,  first |-> LabelAB] >>

Quirks == {"none", "dupcol", "dupgene", "emptypanel", "incidental", "constproxy"}

\* the shapes a generated fitness row can have: monotone in the sample id,
\* constant, or missing everywhere but at 4, 5 or 6 positions of each group
ProfilePool == <<"asc", "desc", "const", "sparse4", "perm6a", "perm6b",
                 "perm6c", "sparse5", "perm6neg">>

PermA == <<2, 3, 1, 4, 5, 6>>
PermB == <<3, 2, 1, 4, 5, 6>>
PermC == <<3, 4, 1, 2, 5, 6>>
PermNeg == <<6, 5, 4, 3, 1, 2>>

Datasets ==
    [ann : 1..Len(Layouts),
     n1 : {MinCohort - 1, MinCohort}, n2 : {MinCohort - 1, MinCohort},
     quirk : Quirks,
     rot : 0..(Len(ProfilePool) - 1), step : {1, 2}]

NSamples == 2 * GroupSize
GroupOf(s) == ((s - 1) \div GroupSize) + 1
PosOf(s) == ((s - 1) % GroupSize) + 1

\* Model.csv
model ==
    [s \in 1..NSamples |->
        [ModelID |-> s,
         OncotreePrimaryDisease |->
            LET lay == Layouts[dataset.ann]
            IN IF s = 1 THEN lay.first
               ELSE IF GroupOf(s) = 1 THEN lay.g1 ELSE lay.g2]]

\* crispr.columns (sample ids) and crispr.index (gene ids)
crispr_columns ==
    LET present == SelectPos([s \in 1..NSamples |-> s], LAMBDA s : PosOf(s) # 2)
    IN IF dataset.quirk = "dupcol" THEN Append(present, 1) ELSE present

crispr_index ==
    [i \in 1..NGenes |-> IF dataset.quirk = "dupgene" /\ i = 2 THEN 1 ELSE i]

ProfileOf(row) ==
    ProfilePool[((dataset.rot + (row - 1) * dataset.step) % Len(ProfilePool)) + 1]

\* the fitness value of gene row `row` for sample s
CrisprValue(row, s) ==
    LET p == ProfileOf(row)
        k == PosOf(s) - 2
    IN CASE p = "asc" -> Rat(s, 1)
         [] p = "desc" -> Rat(0 - s, 1)
         [] p = "const" -> Rat(7, 1)
         [] p = "sparse4" -> IF k \in 1..4 THEN Rat(s, 1) ELSE NaN
         [] p = "sparse5" -> IF k \in 1..5 THEN Rat(s, 1) ELSE NaN
         [] p = "perm6a" -> IF k \in 1..6 THEN Rat(PermA[k], 1) ELSE NaN
         [] p = "perm6b" -> IF k \in 1..6 THEN Rat(PermB[k], 1) ELSE NaN
         [] p = "perm6c" -> IF k \in 1..6 THEN Rat(PermC[k], 1) ELSE NaN
         [] p = "perm6neg" -> IF k \in 1..6 THEN Rat(PermNeg[k], 1) ELSE NaN

\* omics_expr.index (ModelID, duplicates already dropped) and .columns
omics_index ==
    SelectPos([s \in 1..NSamples |-> s],
              LAMBDA s : PosOf(s) <= (IF GroupOf(s) = 1 THEN dataset.n1
                                      ELSE dataset.n2) + 1)

omics_columns ==
    CASE dataset.quirk = "emptypanel" -> <<ColACTB>>
      [] dataset.quirk = "incidental" -> <<ColB2M, ColTGFB1I1, ColACTB>>
      [] OTHER -> <<ColACTB, ColB2M, ColTGFB1>>

\* the expression value of column col for sample s
OmicsValue(s, col) ==
    IF dataset.quirk = "constproxy" THEN Rat(4, 1)
    ELSE CASE col = ColB2M -> Rat(s, 1)
           [] col = ColTGFB1 -> Rat(3 * s, 1)
           [] col = ColTGFB1I1 -> Rat(0 - 5 * s, 1)
           [] OTHER -> Rat(100, 1)

(***************************************************************************)
(* Step 2 - immune proxy genes                                             *)
(***************************************************************************)
immune_markers ==
    << <<67, 68, 50, 55, 52>>,          \* CD274
       <<67, 88, 67, 76, 57>>,          \* CXCL9
       <<67, 88, 67, 76, 49, 48>>,      \* CXCL10
       <<83, 84, 65, 84, 49>>,          \* STAT1
       <<73, 82, 70, 49>>,              \* IRF1
       <<72, 76, 65, 45, 65>>,          \* HLA-A
       <<72, 76, 65, 45, 66>>,          \* HLA-B
       <<66, 50, 77>>,                  \* B2M
       <<84, 65, 80, 49>>,              \* TAP1
       <<84, 71, 70, 66, 49>> >>        \* TGFB1

\* [col for col in omics_expr.columns if any(marker in col ...)]
immune_genes ==
    LET hit == SelectPos(omics_columns,
                   LAMBDA col : \E m \in DOMAIN immune_markers :
                                    Contains(col, immune_markers[m]))
    IN AsList([i \in DOMAIN hit |-> omics_columns[hit[i]]])

(***************************************************************************)
(* Step 3 - cohort selection                                               *)
(***************************************************************************)
\* variant: the labels in their order of first appearance, left unsorted
unique_cancers_unsorted ==
    LET seen == SelectPos(model,
                    LAMBDA row : row.OncotreePrimaryDisease # NoLabel)
        firsts == SelectPos(seen,
                    LAMBDA r : \A q \in 1..(r - 1) :
                        model[q].OncotreePrimaryDisease
                            # model[r].OncotreePrimaryDisease)
    IN AsList([i \in DOMAIN firsts |->
                  model[seen[firsts[i]]].OncotreePrimaryDisease])

\* sorted(model["OncotreePrimaryDisease"].dropna().unique())
unique_cancers ==
    SortedStrings({model[r].OncotreePrimaryDisease : r \in DOMAIN model}
                  \ {NoLabel})

\* variant: the disease label compared case-sensitively
CancerModelsCaseSensitive(cancer) ==
    LET rows == AsList(model)
    IN {rows[r].ModelID :
           r \in {q \in DOMAIN rows : rows[q].OncotreePrimaryDisease = cancer}}

\* model[model[...].str.lower() == cancer.lower()]["ModelID"].unique()
CancerModels(cancer) ==
    LET rows == AsList(model)
    IN {rows[r].ModelID :
           r \in {q \in DOMAIN rows :
                     /\ rows[q].OncotreePrimaryDisease # NoLabel
                     /\ Lower(rows[q].OncotreePrimaryDisease) = Lower(cancer)}}

\* sorted(list(set(crispr.columns) & set(omics_expr.index) & set(cancer_models)))
CommonModels(cancer) ==
    SortedInts((Range(crispr_columns) \cap Range(omics_index))
               \cap CancerModels(cancer))

\* variant: a cohort of exactly MinCohort samples is skipped as well
TooSmallInclusive(cm) == Len(cm) <= MinCohort

\* if len(common_models) < 25: skip
TooSmall(cm) == Len(cm) < MinCohort

(***************************************************************************)
(* Step 3 - correlation of one gene with the immune proxy                  *)
(***************************************************************************)
\* Series.mean(axis=1) of one row: NaN cells are skipped, no cell left is NaN.
\* Expression cells are integers (den = 1) or NaN.
Mean(cells) ==
    LET ok == SelectPos(cells, LAMBDA c : ~IsNaN(c))
    IN IF ok = <<>> THEN NaN
       ELSE Rat(SumSeq([i \in DOMAIN ok |-> cells[ok[i]].num]), Len(ok))

\* immune_proxy = omics_expr.loc[common_models][immune_genes].mean(axis=1)
ImmuneProxy(cm) ==
    LET genes == immune_genes
    IN AsList([i \in DOMAIN cm |->
           Mean(AsList([c \in DOMAIN genes |-> OmicsValue(cm[i], genes[c])]))])

\* the columns of crispr[common_models]: every column carrying a requested
\* label, so a label that occurs twice in crispr.columns yields two columns
SubColumns(cm) ==
    LET columns == crispr_columns
    IN Flatten(AsList([i \in DOMAIN cm |->
           LET at == SelectPos(columns, LAMBDA c : c = cm[i])
           IN AsList([k \in DOMAIN at |-> columns[at[k]]])]))

\* the rows of crispr_sub.loc[gene]: every row carrying that label
GeneRows(gene) == SelectPos(crispr_index, LAMBDA g : g = gene)

\* 1 + the number of strictly smaller entries (the rank, in a tie-free vector)
RankIn(v, i) == 1 + Cardinality({j \in DOMAIN v : Lt(v[j], v[i])})

IsConstant(v) == \A i \in DOMAIN v : Eq(v[i], v[1])

PScale == 2 * 35 * 35 * 35

\* The two-sided p-value of scipy.stats.spearmanr in units of 1/PScale, for n
\* pairs whose squared rank differences sum to d2.  rho = +-1 gives t = inf and
\* p = 0; for n = 6 the t distribution has 4 degrees of freedom, where
\* 2 * sf(|t|) = 1 - |r| * (3 - r^2) / 2 and r = (35 - d2) / 35.  The generated
\* inputs stay inside these cases.
PValue(n, d2) ==
    CASE d2 = 0 -> 0
      [] d2 # 0 /\ 3 * d2 = n * (n * n - 1) -> 0
      [] d2 # 0 /\ 3 * d2 # n * (n * n - 1) /\ n = 6 ->
            LET a == 35 - d2
            IN PScale - Abs(a) * (3 * 35 * 35 - a * a)

\* rho, p = spearmanr(xs, ys) for vectors without NaN that are tie-free or
\* constant; a constant input gives (nan, nan)
SpearmanR(xs, ys) ==
    IF IsConstant(xs) \/ IsConstant(ys) THEN [rho |-> NaN, p |-> NaN]
    ELSE LET n == Len(xs)
             d(i) == RankIn(xs, i) - RankIn(ys, i)
             d2 == SumSeq([i \in DOMAIN xs |-> LET di == d(i) IN di * di])
             D == n * (n * n - 1)
         IN [rho |-> Rat(D - 6 * d2, D), p |-> Rat(PValue(n, d2), 1)]

\* variant: one pair fewer is accepted
TooFewPairsLoose(cnt) == cnt < MinPairs - 1

\* if mask.sum() < 5: continue
TooFewPairs(cnt) == cnt < MinPairs

\* The body of the gene loop for position g of crispr_sub.index:
\*   "abort"  - numpy raises (x and y do not broadcast, or y[mask] is indexed
\*              with a 2-D mask because the gene label names several rows)
\*   "skip"   - fewer than MinPairs paired values
\*   "record" - [gene, rho, p] is appended
GeneOutcome(g, cm) ==
    LET gene == crispr_index[g]
        rows == GeneRows(gene)
        cols == SubColumns(cm)
        y == ImmuneProxy(cm)
        valid(r, j) == ~IsNaN(CrisprValue(rows[r], cols[j])) /\ ~IsNaN(y[j])
    IN IF Len(cols) # Len(y) THEN [kind |-> "abort"]
       ELSE LET cnt == Cardinality({rj \in (DOMAIN rows) \X (DOMAIN cols) :
                                        valid(rj[1], rj[2])})
            IN IF TooFewPairs(cnt) THEN [kind |-> "skip"]
               ELSE IF Len(rows) # 1 THEN [kind |-> "abort"]
               ELSE LET at == SelectPos([j \in DOMAIN cols |-> j],
                                        LAMBDA j : valid(1, j))
                        xs == AsList([k \in DOMAIN at |->
                                  CrisprValue(rows[1], cols[at[k]])])
                        ys == AsList([k \in DOMAIN at |-> y[at[k]]])
                        sp == SpearmanR(xs, ys)
                    IN [kind |-> "record",
                        rec |-> [Gene |-> gene, Spearman_r |-> sp.rho,
                                 P |-> sp.p]]

(***************************************************************************)
(* Benjamini-Hochberg and sorting                                          *)
(***************************************************************************)
\* argsort of a float vector: ascending or descending by value, equal values in
\* their original order, NaN last in their original order (numpy sorts short
\* arrays by insertion; pandas' nargsort for sort_values)
ArgSort(keys, ascending) ==
    LET before(i, j) ==
            \/ ~IsNaN(keys[i]) /\ IsNaN(keys[j])
            \/ IsNaN(keys[i]) /\ IsNaN(keys[j]) /\ i < j
            \/ /\ ~IsNaN(keys[i]) /\ ~IsNaN(keys[j])
               /\ \/ IF ascending THEN Lt(keys[i], keys[j])
                                  ELSE Lt(keys[j], keys[i])
                  \/ Eq(keys[i], keys[j]) /\ i < j
        place(i) == 1 + Cardinality({j \in DOMAIN keys : before(j, i)})
    IN AsList([k \in DOMAIN keys |-> CHOOSE i \in DOMAIN keys : place(i) = k])

\* np.minimum: NaN if either is NaN
Minimum(a, b) == IF IsNaN(a) \/ IsNaN(b) THEN NaN ELSE IF Lt(b, a) THEN b ELSE a

\* multipletests(pvals, method="fdr_bh")[1]: sort, divide by rank/m, running
\* minimum from the largest p down, cap at 1, put back in the input order
FdrBh(pvals) ==
    LET m == Len(pvals)
        sortind == ArgSort(pvals, TRUE)
        raw == AsList([k \in 1..m |->
                   LET q == pvals[sortind[k]]
                   IN IF IsNaN(q) THEN NaN ELSE Rat(q.num * m, q.den * k)])
        acc[k \in 1..m] ==
            IF k = m THEN raw[m] ELSE Minimum(raw[k], acc[k + 1])
        capped == AsList([k \in 1..m |->
                      LET a == acc[k]
                      IN IF Lt(Rat(PScale, 1), a) THEN Rat(PScale, 1) ELSE a])
    IN AsList([i \in 1..m |-> capped[CHOOSE k \in 1..m : sortind[k] = i]])

\* results_df with its FDR column, sorted by FDR
ResultsDf(res) ==
    LET fdr == FdrBh(AsList([i \in DOMAIN res |-> res[i].P]))
        df == AsList([i \in DOMAIN res |->
                  [Gene |-> res[i].Gene, Spearman_r |-> res[i].Spearman_r,
                   P |-> res[i].P, FDR |-> fdr[i]]])
        ord == ArgSort(fdr, TRUE)
    IN AsList([k \in DOMAIN df |-> df[ord[k]]])

\* df.sort_values("Spearman_r", ascending=...)
SortByR(df, ascending) ==
    LET ord == ArgSort(AsList([i \in DOMAIN df |-> df[i].Spearman_r]), ascending)
    IN AsList([k \in DOMAIN df |-> df[ord[k]]])

\* variant: the head of the table as saved, not re-sorted by coefficient
TopPositiveUnsorted(df) ==
    LET top == HeadK(df, TopK)
    IN AsList([i \in DOMAIN top |-> top[i].Gene])

\* top_pos["Gene"].tolist() and top_neg["Gene"].tolist()
TopPositive(df) ==
    LET top == HeadK(SortByR(df, FALSE), TopK)
    IN AsList([i \in DOMAIN top |-> top[i].Gene])

TopNegative(df) ==
    LET top == HeadK(SortByR(df, TRUE), TopK)
    IN AsList([i \in DOMAIN top |-> top[i].Gene])

FilePrefix == <<67, 97, 110, 99, 101, 114, 95, 83, 112, 101, 99, 105, 102, 105,
                99, 95, 82, 101, 115, 117, 108, 116, 115, 47>>
                                \* "Cancer_Specific_Results/"
NamePrefix == <<67, 82, 73, 83, 80, 82, 95, 84, 77, 69, 95>>   \* "CRISPR_TME_"
NameSuffix == <<95, 82, 101, 115, 117, 108, 116, 115, 46, 99, 115, 118>>
                                \* "_Results.csv"

\* f"Cancer_Specific_Results/CRISPR_TME_{cancer.replace('/', '_')}_Results.csv"
OutFile(cancer) ==
    FilePrefix \o NamePrefix \o Replace(cancer, <<47>>, <<95>>) \o NameSuffix

\* the summary row of one cancer type
SummaryRow(cancer, cm, df) ==
    [Cancer |-> cancer, N_Models |-> Len(cm),
     Top_Positive |-> TopPositive(df), Top_Negative |-> TopNegative(df)]

\* to_csv: the file is created or overwritten
WriteFile(dir, name, table) ==
    [n \in (DOMAIN dir) \cup {name} |-> IF n = name THEN table ELSE dir[n]]

EmptyDir == [n \in {} |-> <<>>]

(***************************************************************************)
(* gene_analysis.py as a state machine                                     *)
(*   pc = "loop"    : at the head of `for cancer in unique_cancers`        *)
(*   pc = "genes"   : inside `for gene in crispr_sub.index`                *)
(*   pc = "done"    : the script ended normally                            *)
(*   pc = "aborted" : an uncaught exception ended the script               *)
(* Plot rendering (lines 93-104) changes no state of the model.            *)
(***************************************************************************)
EnrichIdle ==
    /\ epc = "off" /\ efiles = EmptyDir /\ cancer_list = <<>>
    /\ cancer_top_pos = <<>> /\ cancer_top_neg = <<>> /\ ei = 1 /\ queries = <<>>
    /\ enrich_csv = {} /\ elog = <<>> /\ overlap_out = <<>>

Init ==
    /\ dataset \in Datasets
    /\ pc = "loop" /\ ci = 1
    /\ common_models = <<>> /\ gi = 1 /\ results = <<>>
    /\ files = EmptyDir /\ saved = <<>>
    /\ summary_rows = <<>> /\ summary_csv = <<>>
    /\ EnrichIdle

\* lines 53-67: the cohort of the next cancer type and the size check
SelectCohort ==
    /\ pc = "loop" /\ ci <= Len(unique_cancers)
    /\ LET cm == CommonModels(unique_cancers[ci])
       IN /\ common_models' = cm
          /\ IF TooSmall(cm)
             THEN /\ ci' = ci + 1
                  /\ UNCHANGED <<pc, gi, results>>
             ELSE /\ pc' = "genes" /\ gi' = 1 /\ results' = <<>>
                  /\ UNCHANGED ci
    /\ UNCHANGED <<dataset, files, saved, summary_rows, summary_csv>>
    /\ UNCHANGED enrichVars

\* lines 70-77: one pass of the gene loop
CorrelateGene ==
    /\ pc = "genes" /\ gi <= Len(crispr_index)
    /\ LET out == GeneOutcome(gi, common_models)
       IN CASE out.kind = "abort" ->
                 pc' = "aborted" /\ UNCHANGED <<gi, results>>
            [] out.kind = "skip" ->
                 gi' = gi + 1 /\ UNCHANGED <<pc, results>>
            [] out.kind = "record" ->
                 /\ results' = Append(results, out.rec)
                 /\ gi' = gi + 1 /\ UNCHANGED pc
    /\ UNCHANGED <<dataset, ci, common_models, files, saved, summary_rows,
                   summary_csv>>
    /\ UNCHANGED enrichVars

\* variant: an empty result set still appends a summary row
NoValidResultsWithRow ==
    /\ pc = "genes" /\ gi > Len(crispr_index)
    /\ results = <<>>
    /\ pc' = "loop" /\ ci' = ci + 1
    /\ summary_rows' =
          Append(summary_rows,
                 [Cancer |-> unique_cancers[ci], N_Models |-> Len(common_models),
                  Top_Positive |-> <<>>, Top_Negative |-> <<>>])
    /\ UNCHANGED <<dataset, common_models, gi, results, files, saved,
                   summary_csv>>
    /\ UNCHANGED enrichVars

\* lines 79-81: no gene produced a record
NoValidResults ==
    /\ pc = "genes" /\ gi > Len(crispr_index)
    /\ results = <<>>
    /\ pc' = "loop" /\ ci' = ci + 1
    /\ UNCHANGED <<dataset, common_models, gi, results, files, saved,
                   summary_rows, summary_csv>>
    /\ UNCHANGED enrichVars

\* lines 83-114: FDR, sort, save the table, append the summary row
SaveResults ==
    /\ pc = "genes" /\ gi > Len(crispr_index)
    /\ results # <<>>
    /\ LET cancer == unique_cancers[ci]
           df == ResultsDf(results)
       IN /\ files' = WriteFile(files, OutFile(cancer), df)
          /\ saved' = Append(saved, cancer)
          /\ summary_rows' =
                Append(summary_rows, SummaryRow(cancer, common_models, df))
    /\ pc' = "loop" /\ ci' = ci + 1
    /\ UNCHANGED <<dataset, common_models, gi, results, summary_csv>>
    /\ UNCHANGED enrichVars

\* lines 119-120: Step 4, the summary table
WriteSummary ==
    /\ pc = "loop" /\ ci > Len(unique_cancers)
    /\ summary_csv' = <<summary_rows>>
    /\ pc' = "done"
    /\ UNCHANGED <<dataset, ci, common_models, gi, results, files, saved,
                   summary_rows>>
    /\ UNCHANGED enrichVars

Next ==
    \/ SelectCohort
    \/ CorrelateGene
    \/ NoValidResults
    \/ SaveResults
    \/ WriteSummary

Spec == Init /\ [][Next]_vars

(***************************************************************************)
(* Properties of gene_analysis.py.  The cohort and the pair count are      *)
(* stated here from the input tables, independently of the loop.           *)
(***************************************************************************)
\* the samples that are a fitness column, an expression row and the ModelID of
\* an annotation row whose label equals `cancer` ignoring case
CohortSet(cancer) ==
    LET columns == crispr_columns
        index == omics_index
        rows == AsList(model)
        target == AsList(Lower(cancer))
    IN {s \in 1..NSamples :
           /\ \E c \in DOMAIN columns : columns[c] = s
           /\ \E o \in DOMAIN index : index[o] = s
           /\ \E r \in DOMAIN rows :
                 /\ rows[r].ModelID = s
                 /\ rows[r].OncotreePrimaryDisease # NoLabel
                 /\ Lower(rows[r].OncotreePrimaryDisease) = target}

\* the expression columns whose name contains a marker name
MarkerColumns ==
    {col \in Range(omics_columns) :
        \E m \in DOMAIN immune_markers : Contains(col, immune_markers[m])}

\* the number of (row, sample) pairs of gene label `gene` over the samples S
\* where the fitness value is present and some marker column has a value
\* (the immune proxy of the sample is defined)
PairCount(gene, S) ==
    LET panel == MarkerColumns
    IN Cardinality({rs \in (DOMAIN crispr_index) \X S :
           /\ crispr_index[rs[1]] = gene
           /\ ~IsNaN(CrisprValue(rs[1], rs[2]))
           /\ \E col \in panel : ~IsNaN(OmicsValue(rs[2], col))})

CancersInSummary == {summary_rows[r].Cancer : r \in DOMAIN summary_rows}

StepsOfLoop == pc = "loop" /\ ci <= Len(unique_cancers)

\* parts of the property of the size check
C1_SmallCohortInv ==
    \A k \in DOMAIN unique_cancers :
        Cardinality(CohortSet(unique_cancers[k])) < MinCohort
            => /\ unique_cancers[k] \notin Range(saved)
               /\ unique_cancers[k] \notin CancersInSummary

C1_SmallCohortStep ==
    (StepsOfLoop /\ Cardinality(CohortSet(unique_cancers[ci])) < MinCohort)
        => /\ pc' = "loop" /\ ci' = ci + 1
           /\ files' = files /\ saved' = saved
           /\ summary_rows' = summary_rows

C1_ExactCohortStep ==
    (StepsOfLoop /\ Cardinality(CohortSet(unique_cancers[ci])) = MinCohort)
        => pc' = "genes" /\ ci' = ci /\ Len(common_models') = MinCohort

\* C1: a cancer type whose cohort has fewer than 25 samples produces nothing
\* (no table is saved, no summary row is appended, the loop moves on), and a
\* cohort of exactly 25 samples passes the size check and enters the gene loop.
C1_SmallCohortSkipped ==
    /\ []C1_SmallCohortInv
    /\ [][C1_SmallCohortStep]_vars
    /\ [][C1_ExactCohortStep]_vars

\* a cohort of 24 was passed over and the next one, of exactly 25, is in the
\* gene loop
C1_Witness ==
    /\ pc = "genes" /\ Len(common_models) = MinCohort
    /\ \E k \in 1..(ci - 1) :
          Cardinality(CohortSet(unique_cancers[k])) = MinCohort - 1

\* parts of the property of the pair-count check
C2_RecordsInv ==
    pc = "genes" =>
        \A i \in DOMAIN results :
            PairCount(results[i].Gene, Range(common_models)) >= MinPairs

C2_SkipStep ==
    (/\ pc = "genes" /\ gi <= Len(crispr_index)
     /\ PairCount(crispr_index[gi], Range(common_models)) < MinPairs)
        => /\ results' = results
           /\ pc' # "aborted" => (pc' = "genes" /\ gi' = gi + 1)

C2_AppendStep ==
    (pc = "genes" /\ gi <= Len(crispr_index))
        => \/ results' = results
           \/ /\ Len(results') = Len(results) + 1
              /\ SubSeq(results', 1, Len(results)) = results
              /\ results'[Len(results')].Gene = crispr_index[gi]

\* C2: inside the gene loop every record of the results list belongs to a gene
\* with at least 5 paired non-missing observations over the cohort; a pass
\* over a gene with fewer than 5 pairs appends nothing and, when it completes,
\* leaves the loop at the next gene; a pass appends at most the record of its
\* own gene.
C2_MinPairs ==
    /\ []C2_RecordsInv
    /\ [][C2_SkipStep]_vars
    /\ [][C2_AppendStep]_vars

\* a gene with 4 pairs was passed over and a later gene with exactly 5 pairs
\* has its record in the list
C2_Witness ==
    /\ pc = "genes"
    /\ \E g \in 1..(gi - 1) : \E h \in (g + 1)..(gi - 1) :
          /\ PairCount(crispr_index[g], Range(common_models)) = MinPairs - 1
          /\ PairCount(crispr_index[h], Range(common_models)) = MinPairs
          /\ \A i \in DOMAIN results : results[i].Gene # crispr_index[g]
          /\ \E i \in DOMAIN results : results[i].Gene = crispr_index[h]

\* C3 (as claimed): the script never ends inside the per-cancer loop with an
\* uncaught exception.
C3_NeverAborts == pc # "aborted"

\* C4 (as claimed): in every saved table, P1 <= P2 implies FDR1 <= FDR2.
C4_FdrMonotone ==
    \A f \in DOMAIN files :
        \A i \in DOMAIN files[f] : \A j \in DOMAIN files[f] :
            Le(files[f][i].P, files[f][j].P)
                => Le(files[f][i].FDR, files[f][j].FDR)

\* the step that computes a cohort
C5_CohortStep ==
    StepsOfLoop
        => /\ Range(common_models') = CohortSet(unique_cancers[ci])
           /\ \A i \in 1..(Len(common_models') - 1) :
                 common_models'[i] < common_models'[i + 1]

\* C5: the cohort computed for a cancer type is exactly the set of samples
\* present in all three sources for that label (ignoring case), listed in
\* strictly ascending order; a strictly ascending list is determined by its
\* set, so equal inputs give the identical list.
C5_CohortExact == [][C5_CohortStep]_vars

\* the cohort of the label "a/b" holds the samples annotated "A/B"
C5_Witness ==
    /\ pc = "genes" /\ ci <= Len(unique_cancers)
    /\ unique_cancers[ci] = Labelab
    /\ \E s \in Range(common_models) : model[s].OncotreePrimaryDisease = LabelAB
    /\ \E s \in 1..NSamples :
          s \notin Range(common_models) /\ model[s].OncotreePrimaryDisease = LabelAB

\* some gene label has at least 5 pairs over the cohort of `cancer`
HasRecord(cancer) ==
    \E g \in DOMAIN crispr_index :
        PairCount(crispr_index[g], CohortSet(cancer)) >= MinPairs

\* C6: for every finished iteration (all of them once the run is done) the
\* summary holds a row for the cancer type iff its table was saved, which is
\* iff its cohort has at least 25 samples and some gene produced a record;
\* there is at most one row per cancer type and N_Models is the cohort size.
C6_SummaryIffSaved ==
    \A k \in DOMAIN unique_cancers :
        k < ci =>
            LET c == unique_cancers[k]
                n == Cardinality(CohortSet(c))
                rows == {r \in DOMAIN summary_rows : summary_rows[r].Cancer = c}
            IN /\ (rows # {}) <=> (c \in Range(saved))
               /\ (c \in Range(saved)) <=> (n >= MinCohort /\ HasRecord(c))
               /\ Cardinality(rows) <= 1
               /\ Cardinality({q \in DOMAIN saved : saved[q] = c}) <= 1
               /\ \A r \in rows : summary_rows[r].N_Models = n

\* the run is done and a cancer type with a large enough cohort has neither a
\* table nor a row, because no gene produced a record
C6_Witness ==
    /\ pc = "done"
    /\ \E k \in DOMAIN unique_cancers :
          /\ Cardinality(CohortSet(unique_cancers[k])) >= MinCohort
          /\ ~HasRecord(unique_cancers[k])
          /\ unique_cancers[k] \notin Range(saved)
          /\ unique_cancers[k] \notin CancersInSummary

\* parts of the property of the iteration order
C7_OrderInv ==
    /\ \A i \in 1..(Len(unique_cancers) - 1) :
          StrLess(unique_cancers[i], unique_cancers[i + 1])
    /\ \A i \in 1..(Len(summary_rows) - 1) :
          StrLess(summary_rows[i].Cancer, summary_rows[i + 1].Cancer)

C7_AppendOnlyStep ==
    /\ ci' \in {ci, ci + 1}
    /\ \/ summary_rows' = summary_rows
       \/ /\ Len(summary_rows') = Len(summary_rows) + 1
          /\ SubSeq(summary_rows', 1, Len(summary_rows)) = summary_rows
          /\ summary_rows'[Len(summary_rows')].Cancer = unique_cancers[ci]
          /\ ci' = ci + 1
    /\ (pc = "loop" /\ pc' = "genes") => results' = <<>>

\* C7: the cancer types are visited in strictly ascending label order, one at
\* a time; the summary only grows, by at most one row per iteration, the row
\* of the current cancer type, so its rows are in ascending label order; the
\* results list is empty when an iteration enters its gene loop.
C7_Sequential == []C7_OrderInv /\ [][C7_AppendOnlyStep]_vars

\* two cancer types have their rows in the summary and a further results list
\* is being filled
C7_Witness == Len(summary_rows) >= 2 /\ results # <<>>

RhoOf(t, gene) == t[CHOOSE i \in DOMAIN t : t[i].Gene = gene].Spearman_r

GenesOf(t) == {t[i].Gene : i \in DOMAIN t}

\* `top` lists min(TopK, n) distinct genes of t, none before one that Better
\* ranks strictly higher, and no gene left out is strictly Better than one listed
IsTopList(top, t, Better(_, _)) ==
    /\ Len(top) = (IF Len(t) < TopK THEN Len(t) ELSE TopK)
    /\ Range(top) \subseteq GenesOf(t)
    /\ \A i \in DOMAIN top : \A j \in DOMAIN top : i # j => top[i] # top[j]
    /\ \A i \in DOMAIN top : \A j \in DOMAIN top :
          i < j => ~Better(RhoOf(t, top[j]), RhoOf(t, top[i]))
    /\ \A g \in GenesOf(t) \ Range(top) : \A i \in DOMAIN top :
          ~Better(RhoOf(t, g), RhoOf(t, top[i]))

\* C9: the table saved last is in ascending order of FDR (no row precedes a row
\* with a strictly smaller FDR), and the summary row appended with it lists
\* the min(3, n) genes of greatest coefficient in descending order and the
\* min(3, n) genes of smallest coefficient in ascending order.
C9_SortedAndTop ==
    saved # <<>> =>
        LET c == saved[Len(saved)]
            t == files[OutFile(c)]
            row == summary_rows[Len(summary_rows)]
        IN /\ row.Cancer = c
           /\ \A i \in DOMAIN t : \A j \in DOMAIN t :
                 i < j => ~Lt(t[j].FDR, t[i].FDR)
           /\ IsTopList(row.Top_Positive, t, LAMBDA a, b : Lt(b, a))
           /\ IsTopList(row.Top_Negative, t, LAMBDA a, b : Lt(a, b))

\* a table of more than 3 records, all coefficients defined, whose top
\* positive genes are not the first rows of the saved table
C9_Witness ==
    /\ saved # <<>>
    /\ LET t == files[OutFile(saved[Len(saved)])]
           row == summary_rows[Len(summary_rows)]
       IN /\ Len(t) > TopK
          /\ \A i \in DOMAIN t : ~IsNaN(t[i].Spearman_r)
          /\ \E i \in 1..TopK : row.Top_Positive[i] # t[i].Gene
          /\ \E i \in 1..(Len(t) - 1) : Lt(t[i].FDR, t[i + 1].FDR)

\* C10 (as claimed): no two saved cancer types share a result file, and at the
\* end the directory holds one result file per summary row.
C10_DistinctFiles ==
    /\ \A i \in DOMAIN saved : \A j \in DOMAIN saved :
          i # j => OutFile(saved[i]) # OutFile(saved[j])
    /\ pc = "done" => Cardinality(DOMAIN files) = Len(summary_rows)

(***************************************************************************)
(* post_analysis_enrichment.py                                             *)
(*   epc = "off"     : the script is not running (in Spec)                 *)
(*   epc = "start"   : before Step 1                                       *)
(*   epc = "loop"    : in the enrichment loop of Step 3                    *)
(*   epc = "done"    : the script ended normally                           *)
(*   epc = "aborted" : an uncaught exception ended the script              *)
(* The directory it reads is drawn from EDirs.  The enrichment service is  *)
(* external: each query succeeds, raises, or succeeds with the plot of its *)
(* result raising.  The other plots change no state of the model.          *)
(***************************************************************************)
SummaryFile ==
    FilePrefix \o <<67, 97, 110, 99, 101, 114, 119, 105, 115, 101, 95, 83, 117,
                    109, 109, 97, 114, 121, 46, 99, 115, 118>>
                                \* "Cancer_Specific_Results/Cancerwise_Summary.csv"

GeneA1 == <<65, 32, 40, 49, 41>>    \* "A (1)"
GeneB2 == <<66, 32, 40, 50, 41>>    \* "B (2)"
GeneB7 == <<66, 32, 40, 55, 41>>    \* "B (7)"
GeneC == <<32, 67, 32>>             \* " C "

\* result tables as the script may find them: header only, or with rows
ETables ==
    { <<>>,
      << [Gene |-> GeneA1, Spearman_r |-> Rat(1, 2)],
         [Gene |-> GeneB2, Spearman_r |-> Rat(0 - 1, 2)] >>,
      << [Gene |-> GeneB7, Spearman_r |-> Rat(1, 4)],
         [Gene |-> GeneC, Spearman_r |-> NaN] >> }

EResultNames == {OutFile(LabelAB), OutFile(Labelab), OutFile(LabelC)}

\* the directories: the summary table and any of the result tables.  A
\* directory whose result tables are all header-only is left out: the main
\* script never writes such a table (lines 79-81), and the presence heatmap
\* of line 142 would have no row to draw.
EDirs ==
    {d @@ (SummaryFile :> <<>>) :
        d \in {e \in UNION {[S -> ETables] : S \in SUBSET EResultNames} :
                  DOMAIN e = {} \/ \E f \in DOMAIN e : e[f] # <<>>}}

\* glob("Cancer_Specific_Results/CRISPR_TME_*_Results.csv")
GlobMatch(name) ==
    LET pre == FilePrefix \o NamePrefix
    IN /\ Len(name) >= Len(pre) + Len(NameSuffix)
       /\ MatchAt(name, pre, 1)
       /\ MatchAt(name, NameSuffix, Len(name) - Len(NameSuffix) + 1)

\* files = sorted(glob.glob(pattern))
EResultFiles == SortedStrings({f \in DOMAIN efiles : GlobMatch(f)})

\* os.path.basename
Basename(path) ==
    LET slashes == SelectPos(path, LAMBDA c : c = 47)
    IN IF slashes = <<>> THEN path
       ELSE SubSeq(path, slashes[Len(slashes)] + 1, Len(path))

\* os.path.basename(f).replace("CRISPR_TME_", "").replace("_Results.csv", "")
CancerOfFile(f) ==
    Replace(Replace(Basename(f), NamePrefix, <<>>), NameSuffix, <<>>)

IsSpace(c) == c \in {9, 10, 11, 12, 13, 32}

\* str.strip()
Strip(str) ==
    LET keep == SelectPos(str, LAMBDA c : ~IsSpace(c))
    IN IF keep = <<>> THEN <<>> ELSE SubSeq(str, keep[1], keep[Len(keep)])

\* s.split(" (")[0].strip()
GeneClean(str) ==
    LET cut == SelectPos([i \in DOMAIN str |-> i],
                         LAMBDA i : MatchAt(str, <<32, 40>>, i))
    IN Strip(IF cut = <<>> THEN str ELSE SubSeq(str, 1, cut[1] - 1))

\* df.sort_values("Spearman_r", ascending=...).head(TOP_N)["Gene_clean"]
TopGenes(table, ascending) ==
    LET top == HeadK(SortByR(table, ascending), TOP_N)
    IN AsList([k \in DOMAIN top |-> GeneClean(top[k].Gene)])

\* cancer_list after Step 2
LoadedCancers ==
    LET fs == EResultFiles
    IN AsList([i \in DOMAIN fs |-> CancerOfFile(fs[i])])

\* cancer_top_pos / cancer_top_neg after Step 2: the last file of a cancer
\* name is the one kept
LoadedTop(ascending) ==
    LET fs == EResultFiles
        cl == LoadedCancers
        last(c) == CHOOSE i \in DOMAIN cl :
                       cl[i] = c /\ \A j \in DOMAIN cl : j > i => cl[j] # c
    IN [c \in Range(cl) |-> TopGenes(efiles[fs[last(c)]], ascending)]

\* the (cancer, label, gene_list) passes of the enrichment loop, in order
EItems ==
    LET cl == cancer_list
    IN Flatten(AsList([i \in DOMAIN cl |->
           << [cancer |-> cl[i], label |-> "Positive",
               genes |-> cancer_top_pos[cl[i]]],
              [cancer |-> cl[i], label |-> "Negative",
               genes |-> cancer_top_neg[cl[i]]] >>]))

ItemKey(item) == [cancer |-> item.cancer, label |-> item.label]

\* def jaccard(a, b)
jaccard(a, b) ==
    LET A == Range(a)
        B == Range(b)
    IN IF A = {} /\ B = {} THEN Rat(0, 1)
       ELSE Rat(Cardinality(A \cap B), Cardinality(A \cup B))

\* Steps 4-6: Jaccard matrix, gene frequency, overlap counts
OverlapOutputs ==
    LET cl == cancer_list
        pos == cancer_top_pos
        all == UNION {Range(pos[c]) : c \in Range(cl)}
    IN [jmat |-> [i \in DOMAIN cl |-> [j \in DOMAIN cl |->
                     jaccard(pos[cl[i]], pos[cl[j]])]],
        pos_counter |->
            [g \in all |->
                SumSeq(AsList([i \in DOMAIN cl |->
                    Cardinality({k \in DOMAIN pos[cl[i]] :
                                    pos[cl[i]][k] = g})]))],
        overlap |->
            [i \in DOMAIN cl |-> [j \in DOMAIN cl |->
                Cardinality(Range(pos[cl[i]]) \cap Range(pos[cl[j]]))]]]

MainIdle ==
    /\ dataset = [ann |-> 1, n1 |-> MinCohort, n2 |-> MinCohort,
                  quirk |-> "none", rot |-> 0, step |-> 1]
    /\ pc = "done" /\ ci = 1
    /\ common_models = <<>> /\ gi = 1 /\ results = <<>>
    /\ files = EmptyDir /\ saved = <<>>
    /\ summary_rows = <<>> /\ summary_csv = <<>>

EInit ==
    /\ MainIdle
    /\ epc = "start" /\ efiles \in EDirs
    /\ cancer_list = <<>> /\ cancer_top_pos = <<>> /\ cancer_top_neg = <<>>
    /\ ei = 1
    /\ queries = <<>> /\ enrich_csv = {} /\ elog = <<>> /\ overlap_out = <<>>

\* lines 18-42: locate the result files and load the top gene lists
ELoad ==
    /\ epc = "start"
    /\ IF EResultFiles = <<>>
       THEN /\ epc' = "aborted"
            /\ UNCHANGED <<cancer_list, cancer_top_pos, cancer_top_neg>>
       ELSE /\ epc' = "loop"
            /\ cancer_list' = LoadedCancers
            /\ cancer_top_pos' = LoadedTop(FALSE)
            /\ cancer_top_neg' = LoadedTop(TRUE)
    /\ UNCHANGED <<efiles, ei, queries, enrich_csv, elog, overlap_out>>
    /\ UNCHANGED mainVars

\* lines 62-63: an empty gene list is passed over
EnrichSkip ==
    /\ epc = "loop" /\ ei <= Len(EItems)
    /\ EItems[ei].genes = <<>>
    /\ ei' = ei + 1
    /\ UNCHANGED <<epc, efiles, cancer_list, cancer_top_pos, cancer_top_neg,
                   queries, enrich_csv, elog, overlap_out>>
    /\ UNCHANGED mainVars

\* variant: no try/except around the query, a failure ends the script
EnrichQueryUncaught ==
    /\ epc = "loop" /\ ei <= Len(EItems)
    /\ LET item == EItems[ei]
       IN /\ item.genes # <<>>
          /\ queries' = Append(queries, ItemKey(item))
          /\ \E outcome \in {"ok", "profile_raises", "plot_raises"} :
                /\ enrich_csv' = (IF outcome = "profile_raises" THEN enrich_csv
                                  ELSE enrich_csv \cup {ItemKey(item)})
                /\ IF outcome = "ok"
                   THEN ei' = ei + 1 /\ UNCHANGED epc
                   ELSE epc' = "aborted" /\ UNCHANGED ei
    /\ UNCHANGED <<efiles, cancer_list, cancer_top_pos, cancer_top_neg, elog,
                   overlap_out>>
    /\ UNCHANGED mainVars

\* lines 64-83: one query; a failure of the query, or of writing or plotting
\* its result, is caught and printed
EnrichQuery ==
    /\ epc = "loop" /\ ei <= Len(EItems)
    /\ LET item == EItems[ei]
       IN /\ item.genes # <<>>
          /\ queries' = Append(queries, ItemKey(item))
          /\ \E outcome \in {"ok", "profile_raises", "plot_raises"} :
                /\ enrich_csv' = (IF outcome = "profile_raises" THEN enrich_csv
                                  ELSE enrich_csv \cup {ItemKey(item)})
                /\ elog' = (IF outcome = "ok" THEN elog
                            ELSE Append(elog, ItemKey(item)))
    /\ ei' = ei + 1
    /\ UNCHANGED <<epc, efiles, cancer_list, cancer_top_pos, cancer_top_neg,
                   overlap_out>>
    /\ UNCHANGED mainVars

\* lines 88-157: the overlap outputs
EOverlap ==
    /\ epc = "loop" /\ ei > Len(EItems)
    /\ overlap_out' = <<OverlapOutputs>>
    /\ epc' = "done"
    /\ UNCHANGED <<efiles, cancer_list, cancer_top_pos, cancer_top_neg, ei,
                   queries, enrich_csv, elog>>
    /\ UNCHANGED mainVars

ENext ==
    \/ ELoad
    \/ EnrichSkip
    \/ EnrichQuery
    \/ EOverlap

EnrichSpec == EInit /\ [][ENext]_vars

(***************************************************************************)
(* Properties of post_analysis_enrichment.py                               *)
(***************************************************************************)
QueriesFor(key) == Cardinality({q \in DOMAIN queries : queries[q] = key})

\* every pass already made queried its item once if its gene list is
\* non-empty and not at all otherwise; failures are among the queried items; the
\* script aborts only when it found no result file; when done, every pass was
\* made and the overlap outputs exist
C8_QueriesInv ==
    LET items == EItems
    IN /\ \A k \in DOMAIN items :
              k < ei =>
                  QueriesFor(ItemKey(items[k]))
                      = (IF items[k].genes = <<>> THEN 0 ELSE 1)
       /\ \A l \in DOMAIN elog : QueriesFor(elog[l]) = 1
       /\ epc = "aborted" => EResultFiles = <<>>
       /\ epc = "done" => ei = Len(items) + 1 /\ overlap_out = <<OverlapOutputs>>

\* a query is made for the current item only and moves the loop on; a logged
\* failure leaves the script in the loop at the next item; the end of the loop
\* leads to the overlap outputs
C8_QueryStep ==
    LET items == EItems
    IN /\ queries' # queries =>
             /\ queries' = Append(queries, ItemKey(items[ei]))
             /\ items[ei].genes # <<>>
             /\ ei' = ei + 1
       /\ elog' # elog =>
             /\ elog' = Append(elog, ItemKey(items[ei]))
             /\ epc' = "loop" /\ ei' = ei + 1
       /\ (epc = "loop" /\ epc' # "loop") =>
             /\ ei > Len(items)
             /\ epc' = "done" /\ overlap_out' # <<>>

\* C8: every (cancer, Positive/Negative) item with a non-empty gene list is
\* queried exactly once; a failure is logged for that item only, is not
\* retried, later items are still attempted and the overlap outputs are still
\* computed.
C8_EnrichmentContained == []C8_QueriesInv /\ [][C8_QueryStep]_vars

\* the script is done, a failed query was followed by a successful one, an
\* item with an empty gene list took part, and the outputs exist
C8_Witness ==
    /\ epc = "done" /\ overlap_out # <<>>
    /\ \E i \in DOMAIN queries : \E j \in DOMAIN queries :
          /\ i < j
          /\ queries[i] \in Range(elog) /\ queries[i] \notin enrich_csv
          /\ queries[j] \notin Range(elog) /\ queries[j] \in enrich_csv
    /\ \E k \in DOMAIN EItems : EItems[k].genes = <<>>

====
